---- MODULE Spec2Model ----
(***************************************************************************)
(* A model of the RAPL energy exporter (main.go): the construction of the  *)
(* collector in main, its registration (Describe), and concurrent scrapes  *)
(* (Collect -> Update) against the powercap files of the host.             *)
(*                                                                         *)
(* Strings whose content matters (metric names, zone names) are sequences  *)
(* of one-character strings.  A float64 number of joules is the exact      *)
(* quotient microjoules / 1000000, kept as whole joules and millionths.    *)
(*                                                                         *)
(* The files of the host are inputs: a sample draws, when it enumerates,   *)
(* what GetRaplZones returns and what each zone's energy_uj read yields.   *)
(* prior, before and lastRaw are history variables: they record what was   *)
(* read earlier and the program keeps none of them.                        *)
(***************************************************************************)
EXTENDS Integers, Sequences, FiniteSets, TLC

VARIABLES
    mainPc,     \* where main is
    collector,  \* raplCollector of main: NIL or the RaplCollector
    registry,   \* the descriptors the registry got from Describe
    pc,         \* per scrape goroutine: "idle", "loop" (inside Update), "done"
    zones,      \* per goroutine: the zones GetRaplZones returned
    world,      \* per goroutine: what reading each zone's energy_uj yields
    enumErr,    \* per goroutine: err of line 72
    idx,        \* per goroutine: position of the range loop in zones
    ch,         \* per goroutine: the metrics sent on ch
    result,     \* per goroutine: what Update returned
    prior,      \* per goroutine: enumErr of the sample it made before
    before,     \* per goroutine, per metric sent: the zone's reading before
    lastRaw,    \* per zone ever read: its most recent reading
    samples     \* Collect calls so far

vars == <<mainPc, collector, registry,
          pc, zones, world, enumErr, idx, ch, result, prior,
          before, lastRaw, samples>>

-----------------------------------------------------------------------------
(* Bounds of the model *)

\* number of Collect calls made over one run
MaxSamples == 2

\* the largest counter value a zone reports (its max_energy_range_uj)
MaxEnergyRange == 2500000

\* the goroutines that serve scrape requests
Scrapers == {1, 2}

\* the powercap zone directories the host may expose, in directory order
Zones == {1, 2}

\* raw values of energy_uj, in microjoules
Readings == {1000, 1500, MaxEnergyRange}

-----------------------------------------------------------------------------
(* Strings *)

Digits == {"0", "1", "2", "3", "4", "5", "6", "7", "8", "9"}

Letters ==
    {"a", "b", "c", "d", "e", "f", "g", "h", "i", "j", "k", "l", "m",
     "n", "o", "p", "q", "r", "s", "t", "u", "v", "w", "x", "y", "z",
     "A", "B", "C", "D", "E", "F", "G", "H", "I", "J", "K", "L", "M",
     "N", "O", "P", "Q", "R", "S", "T", "U", "V", "W", "X", "Y", "Z"}

\* the class [0-9A-Za-z_] of metricNameRegex
NameChars == Digits \cup Letters \cup {"_"}

\* the first position j >= i of s whose character is not in class
RECURSIVE RunEnd(_, _, _)
RunEnd(s, i, class) ==
    IF i > Len(s) \/ s[i] \notin class THEN i ELSE RunEnd(s, i + 1, class)

\* the first position j >= i of s whose character is in [0-9A-Za-z_]
RECURSIVE InvalidRunEnd(_, _)
InvalidRunEnd(s, i) ==
    IF i > Len(s) \/ s[i] \in NameChars THEN i ELSE InvalidRunEnd(s, i + 1)

\* metricNameRegex.ReplaceAllString(s, "_") from position i on: every
\* leftmost, greedy match of _*[^0-9A-Za-z_]+_* becomes one underscore
RECURSIVE ReplaceAllFrom(_, _)
ReplaceAllFrom(s, i) ==
    IF i > Len(s) THEN << >>
    ELSE LET u == RunEnd(s, i, {"_"})
         IN  IF u <= Len(s) /\ s[u] \notin NameChars
             THEN <<"_">> \o ReplaceAllFrom(s, RunEnd(s, InvalidRunEnd(s, u), {"_"}))
             ELSE <<s[i]>> \o ReplaceAllFrom(s, i + 1)

SanitizeMetricName(metricName) == ReplaceAllFrom(metricName, 1)

\* strconv.Itoa for a non-negative int
RECURSIVE Itoa(_)
Itoa(n) ==
    LET d == <<"0", "1", "2", "3", "4", "5", "6", "7", "8", "9">>[(n % 10) + 1]
    IN  IF n < 10 THEN <<d>> ELSE Itoa(n \div 10) \o <<d>>

\* prometheus.BuildFQName
BuildFQName(namespace, subsystem, name) ==
    IF name = << >> THEN << >>
    ELSE IF namespace # << >> /\ subsystem # << >>
         THEN namespace \o <<"_">> \o subsystem \o <<"_">> \o name
    ELSE IF namespace # << >> THEN namespace \o <<"_">> \o name
    ELSE IF subsystem # << >> THEN subsystem \o <<"_">> \o name
    ELSE name

-----------------------------------------------------------------------------
(* The host: the zones sysfs.GetRaplZones can return *)

\* the names found in the zones' name files
ZoneNames ==
    << <<"c", "o", "r", "e">>,
       <<"p", "k", "g", "-", "0", "-", "d", "i", "e", "_", "-", "1">> >>

\* RaplZone.Name
ZoneName(z) == ZoneNames[z]

\* RaplZone.Index: how many earlier zones carry the same name
ZoneIndex(z) == Cardinality({y \in Zones : y < z /\ ZoneName(y) = ZoneName(z)})

\* RaplZone.Path
ZonePath(z) == <<"/sys/class/powercap/intel-rapl:">> \o Itoa(z - 1)

\* the zones of a set in directory order
RECURSIVE SortedSeq(_)
SortedSeq(S) ==
    IF S = {} THEN << >>
    ELSE LET m == CHOOSE x \in S : \A y \in S : x <= y
         IN  <<m>> \o SortedSeq(S \ {m})

\* what rz.GetEnergyMicrojoules() can return: (uint64, error)
ReadOutcomes ==
    [err : {"nil"}, uj : Readings]
        \cup [err : {"ErrPermission", "ErrOther"}, uj : {0}]

\* the errors sysfs.GetRaplZones can return
EnumErrors == {"ErrNotExist", "ErrPermission", "ErrOther"}

-----------------------------------------------------------------------------
(* The collector *)

NIL == [nil |-> TRUE]

ErrNoData == "collector returned no data"

SysPath == "/sys/"

\* the descriptor NewRaplCollector builds
JoulesMetricDesc ==
    [fqName |-> <<"n", "o", "d", "e", "_", "r", "a", "p", "l", "_",
                  "j", "o", "u", "l", "e", "s", "_", "t", "o", "t", "a", "l">>,
     help |-> <<"Current RAPL value in joules">>,
     variableLabels |-> <<"instance", "package", "domain">>]

\* the value NewRaplCollector returns when sysfs.NewFS succeeds
NewCollector == [fs |-> SysPath, joulesMetricDesc |-> JoulesMetricDesc]

\* the per-key entries a collector holds: RaplCollector has the fields fs and
\* joulesMetricDesc and no map, so there are none
TrackerState(c) == << >>

MicroPerJoule == 1000000

\* a faulty variant: the wraparound correction subtracted from the reading
JoulesLessRange(microJoules) ==
    [whole |-> (microJoules - MaxEnergyRange) \div MicroPerJoule,
     micro |-> (microJoules - MaxEnergyRange) % MicroPerJoule]

\* a faulty variant: the division by a thousand, millijoules taken for joules
JoulesPerMille(microJoules) ==
    [whole |-> microJoules \div 1000, micro |-> (microJoules % 1000) * 1000]

\* a faulty variant: the division done on the uint64, float64(microJoules / 1000000)
JoulesTruncated(microJoules) ==
    [whole |-> microJoules \div MicroPerJoule, micro |-> 0]

\* float64(microJoules) / 1000000.0
Joules(microJoules) ==
    [whole |-> microJoules \div MicroPerJoule,
     micro |-> microJoules % MicroPerJoule]

\* the descriptor joulesMetric builds for a zone
ZoneDesc(z) ==
    [fqName |-> BuildFQName(<<"n", "o", "d", "e">>, <<"r", "a", "p", "l">>,
                    SanitizeMetricName(ZoneName(z))
                        \o <<"_", "j", "o", "u", "l", "e", "s", "_", "t", "o", "t", "a", "l">>),
     help |-> <<"Current RAPL ">> \o ZoneName(z) \o <<" value in joules">>,
     variableLabels |-> <<"index", "path">>]

\* c.joulesMetric(z, v): prometheus.MustNewConstMetric
joulesMetric(z, v) ==
    [desc |-> ZoneDesc(z),
     valueType |-> "CounterValue",
     value |-> v,
     labelValues |-> <<Itoa(ZoneIndex(z)), ZonePath(z)>>]

\* a faulty variant: the descriptor built for the zone is kept in the collector
CollectorCachingDesc(c, m) == [c EXCEPT !.joulesMetricDesc = m.desc]

\* the collector after one pass of Update's loop body, which assigns to no
\* field of c
CollectorAfterObserve(c, m) == c

-----------------------------------------------------------------------------
(* Initial state: the process has just started *)

Init ==
    /\ mainPc = "start"
    /\ collector = NIL
    /\ registry = {}
    /\ pc = [s \in Scrapers |-> "idle"]
    /\ zones = [s \in Scrapers |-> << >>]
    /\ world = [s \in Scrapers |-> << >>]
    /\ enumErr = [s \in Scrapers |-> "nil"]
    /\ idx = [s \in Scrapers |-> 1]
    /\ ch = [s \in Scrapers |-> << >>]
    /\ result = [s \in Scrapers |-> "none"]
    /\ prior = [s \in Scrapers |-> "none"]
    /\ before = [s \in Scrapers |-> << >>]
    /\ lastRaw = << >>
    /\ samples = 0

scrapeVars == <<pc, zones, world, enumErr, idx, ch, result, prior,
                before, lastRaw, samples>>

-----------------------------------------------------------------------------
(* main *)

\* raplCollector, err := NewRaplCollector(); an error is logged and main
\* goes on with the nil collector
MainNewRaplCollector ==
    /\ mainPc = "start"
    /\ \E newFSErr \in BOOLEAN :
          collector' = IF newFSErr THEN NIL ELSE NewCollector
    /\ mainPc' = "register"
    /\ UNCHANGED <<registry, scrapeVars>>

\* reg.MustRegister(raplCollector) calls raplCollector.Describe
MainMustRegister ==
    /\ mainPc = "register"
    /\ mainPc' = "describe"
    /\ UNCHANGED <<collector, registry, scrapeVars>>

\* Describe: ch <- c.joulesMetricDesc; on a nil c the field read panics
Describe ==
    /\ mainPc = "describe"
    /\ IF collector = NIL
       THEN /\ mainPc' = "panicked"
            /\ UNCHANGED registry
       ELSE /\ registry' = registry \cup {collector.joulesMetricDesc}
            /\ mainPc' = "listen"
    /\ UNCHANGED <<collector, scrapeVars>>

\* http.Handle and http.ListenAndServe: scrape requests are served from now
MainListenAndServe ==
    /\ mainPc = "listen"
    /\ mainPc' = "serving"
    /\ UNCHANGED <<collector, registry, scrapeVars>>

-----------------------------------------------------------------------------
(* A scrape: Collect calls Update *)

\* a faulty variant: the errors.Is checks are missing and every error is wrapped
EnumResultWrapped(e) == "failed to retrieve rapl stats: " \o e

\* what Update returns when GetRaplZones fails with e
EnumResult(e) ==
    IF e \in {"ErrNotExist", "ErrPermission"} THEN ErrNoData
    ELSE "failed to retrieve rapl stats: " \o e

\* what Update returns when GetEnergyMicrojoules fails with e
ReadResult(e) == IF e = "ErrPermission" THEN ErrNoData ELSE e

\* Collect enters Update, which calls sysfs.GetRaplZones(c.fs)
CollectStart(s) ==
    /\ mainPc = "serving"
    /\ pc[s] \in {"idle", "done"}
    /\ samples < MaxSamples
    /\ samples' = samples + 1
    /\ prior' = [prior EXCEPT ![s] = IF pc[s] = "done" THEN enumErr[s] ELSE "none"]
    /\ ch' = [ch EXCEPT ![s] = << >>]
    /\ before' = [before EXCEPT ![s] = << >>]
    /\ idx' = [idx EXCEPT ![s] = 1]
    /\ \/ \E e \in EnumErrors :
            /\ enumErr' = [enumErr EXCEPT ![s] = e]
            /\ zones' = [zones EXCEPT ![s] = << >>]
            /\ world' = [world EXCEPT ![s] = << >>]
            /\ result' = [result EXCEPT ![s] = EnumResult(e)]
            /\ pc' = [pc EXCEPT ![s] = "done"]
       \/ \E S \in SUBSET Zones : \E w \in [S -> ReadOutcomes] :
            /\ enumErr' = [enumErr EXCEPT ![s] = "nil"]
            /\ zones' = [zones EXCEPT ![s] = SortedSeq(S)]
            /\ world' = [world EXCEPT ![s] = w]
            /\ result' = [result EXCEPT ![s] = "none"]
            /\ pc' = [pc EXCEPT ![s] = "loop"]
    /\ UNCHANGED <<mainPc, collector, registry, lastRaw>>

\* one pass of the range loop: read the zone's counter and send its metric,
\* or return on a failed read
UpdateZone(s) ==
    /\ pc[s] = "loop"
    /\ idx[s] <= Len(zones[s])
    /\ LET rz == zones[s][idx[s]]
           o == world[s][rz]
           m == joulesMetric(rz, Joules(o.uj))
       IN  IF o.err = "nil"
           THEN /\ ch' = [ch EXCEPT ![s] = Append(@, m)]
                /\ before' = [before EXCEPT ![s] = Append(@,
                       IF rz \in DOMAIN lastRaw
                       THEN [seen |-> TRUE, uj |-> lastRaw[rz]]
                       ELSE [seen |-> FALSE, uj |-> 0])]
                /\ lastRaw' = [k \in DOMAIN lastRaw \cup {rz} |->
                                  IF k = rz THEN o.uj ELSE lastRaw[k]]
                /\ idx' = [idx EXCEPT ![s] = @ + 1]
                /\ collector' = CollectorAfterObserve(collector, m)
                /\ UNCHANGED <<pc, result>>
           ELSE /\ result' = [result EXCEPT ![s] = ReadResult(o.err)]
                /\ pc' = [pc EXCEPT ![s] = "done"]
                /\ UNCHANGED <<ch, before, lastRaw, idx, collector>>
    /\ UNCHANGED <<mainPc, registry, zones, world, enumErr, prior, samples>>

\* the loop is over: Update returns nil and Collect returns
UpdateReturn(s) ==
    /\ pc[s] = "loop"
    /\ idx[s] > Len(zones[s])
    /\ result' = [result EXCEPT ![s] = "nil"]
    /\ pc' = [pc EXCEPT ![s] = "done"]
    /\ UNCHANGED <<mainPc, collector, registry, zones, world, enumErr, idx,
                   ch, prior, before, lastRaw, samples>>

Next ==
    \/ MainNewRaplCollector
    \/ MainMustRegister
    \/ Describe
    \/ MainListenAndServe
    \/ \E s \in Scrapers : CollectStart(s)
    \/ \E s \in Scrapers : UpdateZone(s)
    \/ \E s \in Scrapers : UpdateReturn(s)

Spec == Init /\ [][Next]_vars

-----------------------------------------------------------------------------
(* What the claims speak of *)

\* the positions of the metrics goroutine s has sent
Sent(s) == 1..Len(ch[s])

\* the zone whose metric stands at position k of ch[s]
ZoneAt(s, k) == CHOOSE z \in Zones : ZonePath(z) = ch[s][k].labelValues[2]

\* the raw reading behind the metric at position k of ch[s]
RawAt(s, k) == world[s][ZoneAt(s, k)].uj

\* an emitted value in millionths of a joule
InMicro(v) == v.whole * MicroPerJoule + v.micro

\* goroutine s has sent a metric for zone z
EmittedFor(s, z) == \E k \in Sent(s) : ZonePath(z) = ch[s][k].labelValues[2]

\* the sample of s found the hierarchy and every counter readable
AllReadable(s) ==
    /\ enumErr[s] = "nil"
    /\ \A z \in DOMAIN world[s] : world[s][z].err = "nil"

\* the delta of the specification: the difference, plus the range on a wrap
SpecDelta(cur, prev) ==
    IF cur >= prev THEN cur - prev ELSE cur - prev + MaxEnergyRange

-----------------------------------------------------------------------------
(* C1 *)

\* C1 as stated: the value emitted for a zone read before is the difference
\* to the zone's previous reading, corrected by the maximum range on a wrap.
C1_EmitsDelta ==
    \A s \in Scrapers : \A k \in Sent(s) :
        before[s][k].seen =>
            InMicro(ch[s][k].value) = SpecDelta(RawAt(s, k), before[s][k].uj)

\* C1 amended: the value emitted for a zone is the raw cumulative reading r_i
\* itself, converted to joules (r_i / 1000000), whatever the previous reading.
C1_EmitsRawJoules ==
    \A s \in Scrapers : \A k \in Sent(s) :
        /\ ch[s][k].value.whole * MicroPerJoule + ch[s][k].value.micro = RawAt(s, k)
        /\ ch[s][k].value.micro \in 0..(MicroPerJoule - 1)

\* a zone read as 1000 and then as 1500 has had its second value emitted
C1_Witness ==
    \E s \in Scrapers : \E k \in Sent(s) :
        /\ before[s][k].seen
        /\ before[s][k].uj = 1000
        /\ RawAt(s, k) = 1500

-----------------------------------------------------------------------------
(* C2 *)

-----------------------------------------------------------------------------
(* C3 *)

\* C3 as stated: when a sample is over, every enumerated zone whose counter is
\* readable has had its value emitted, whether or not another zone's read failed.
C3_OthersStillEmitted ==
    \A s \in Scrapers :
        (pc[s] = "done" /\ enumErr[s] = "nil") =>
            \A z \in DOMAIN world[s] :
                world[s][z].err = "nil" =>
                    \E k \in Sent(s) :
                        /\ ZonePath(z) = ch[s][k].labelValues[2]
                        /\ InMicro(ch[s][k].value) = world[s][z].uj

-----------------------------------------------------------------------------
(* C4 *)

\* C4: a sample whose top-level read fails with "not exist" or "permission"
\* returns ErrNoData, sends nothing and leaves the process serving; and a
\* sample that finds everything readable returns nil with one value per zone,
\* whatever the samples before it met.
C4_NoDataThenRecovers ==
    \A s \in Scrapers :
        pc[s] = "done" =>
            /\ enumErr[s] \in {"ErrNotExist", "ErrPermission"} =>
                   /\ result[s] = ErrNoData
                   /\ ch[s] = << >>
                   /\ mainPc = "serving"
            /\ AllReadable(s) =>
                   /\ result[s] = "nil"
                   /\ \A z \in DOMAIN world[s] : EmittedFor(s, z)
                   /\ Len(ch[s]) = Cardinality(DOMAIN world[s])

\* a goroutine whose previous sample met a missing hierarchy has completed a
\* sample of two zones
C4_Witness ==
    \E s \in Scrapers :
        /\ pc[s] = "done"
        /\ prior[s] = "ErrNotExist"
        /\ AllReadable(s)
        /\ result[s] = "nil"
        /\ Len(ch[s]) = 2

-----------------------------------------------------------------------------
(* C5 *)

\* C5 as stated: at most one sample is between its first and its last step.
C5_SamplesExclusive ==
    Cardinality({s \in Scrapers : pc[s] = "loop"}) <= 1

-----------------------------------------------------------------------------
(* C6 *)

\* C6 as stated: the collector holds, for every zone ever read, an entry with
\* the zone's most recent raw reading.
C6_TrackerHoldsLastRaw ==
    \A z \in DOMAIN lastRaw :
        /\ z \in DOMAIN TrackerState(collector)
        /\ TrackerState(collector)[z] = lastRaw[z]

\* C6 amended: the collector keeps no per-zone state; after any sequence of
\* samples it is the value NewRaplCollector built, and no sample has written,
\* created or removed an entry in it.
C6_CollectorUnchanged ==
    collector # NIL => collector = NewCollector

\* a zone read earlier is missing from a later, completed enumeration
C6_Witness ==
    \E s \in Scrapers : \E z \in DOMAIN lastRaw :
        /\ collector # NIL
        /\ pc[s] = "done"
        /\ enumErr[s] = "nil"
        /\ prior[s] = "nil"
        /\ z \notin DOMAIN world[s]

-----------------------------------------------------------------------------
(* C7 *)

\* C7 as stated: the first observation of a zone emits 0.
C7_FirstObservationZero ==
    \A s \in Scrapers : \A k \in Sent(s) :
        ~before[s][k].seen =>
            (ch[s][k].value.whole = 0 /\ ch[s][k].value.micro = 0)

\* C7 amended: the first observation of a zone emits the raw reading in
\* joules, which is not 0 unless the counter reads 0.
C7_FirstObservationRaw ==
    \A s \in Scrapers : \A k \in Sent(s) :
        ~before[s][k].seen =>
            /\ InMicro(ch[s][k].value) = RawAt(s, k)
            /\ (RawAt(s, k) > 0 => ch[s][k].value # [whole |-> 0, micro |-> 0])

\* a zone never read before has had a value emitted
C7_Witness ==
    \E s \in Scrapers : \E k \in Sent(s) :
        /\ ~before[s][k].seen
        /\ RawAt(s, k) = 1000

-----------------------------------------------------------------------------
(* C8 *)

\* C8 as stated: every metric sent carries a descriptor Describe announced,
\* with its name and label schema, and a sample that finds everything
\* readable sends exactly one value per enumerated zone.
C8_EmittedAsDescribed ==
    \A s \in Scrapers :
        /\ \A k \in Sent(s) :
               \E d \in registry :
                   /\ d.fqName = ch[s][k].desc.fqName
                   /\ d.variableLabels = ch[s][k].desc.variableLabels
        /\ (pc[s] = "done" /\ AllReadable(s)) =>
               \A z \in DOMAIN world[s] :
                   Cardinality({k \in Sent(s) : ZoneAt(s, k) = z}) = 1

-----------------------------------------------------------------------------
(* C9 *)

\* C9 as stated: Describe, Collect and the serving of the endpoint never
\* happen with a collector whose construction failed, and no sample ends
\* the process.
C9_NoUseOfFailedCollector ==
    /\ (mainPc \in {"describe", "listen", "serving"} \/ samples > 0) => collector # NIL
    /\ samples > 0 => mainPc = "serving"

-----------------------------------------------------------------------------
(* C10 *)

\* C10 as stated: an Update that returned ErrNoData has sent no metric.
C10_NoDataSendsNothing ==
    \A s \in Scrapers :
        (pc[s] = "done" /\ result[s] = ErrNoData) => ch[s] = << >>

====
